---- MODULE Spec2Model ----
(***************************************************************************)
(* The student record service of app.py: five FastAPI handlers over the    *)
(* MongoDB collection db["students"].  Every await of a handler is one     *)
(* atomic store round trip; other requests may run between the round trips *)
(* of one handler.  Numbers for gpa are in tenths (4.0 is 40).             *)
(***************************************************************************)
EXTENDS Integers, Sequences, FiniteSets, TLC

\* ------------------------------------------------------------------ bounds
\* Number of requests the service receives in one behaviour.
MaxRequests == 2
\* The cap of list_students, to_list(1000) in the source, scaled down so that
\* a collection larger than the cap is reachable.
ListCap == 2

\* --------------------------------------------------------------- constants
\* gpa: float = Field(..., le=4.0), in tenths.
GpaMax == 40

\* ----------------------------------------------------------- input domains
Names == {"Ann", "Bob"}
Emails == {"ann@x.org"}
BadEmails == {"no-at"}
Courses == {"math"}
Gpas == {35, 40, 41}
Fields == {"name", "email", "course", "gpa"}

\* ObjectIds of the documents the collection may hold when the service starts.
PreOids == {100, 101}
\* ObjectId(): the n-th generated ObjectId is n; generated ids never repeat
\* and never equal an id made elsewhere.
OidUniverse == PreOids \cup (1..MaxRequests)

\* An optional value: <<>> is absent (or null), <<v>> is present.
Opt(S) == {<<>>} \cup {<<v>> : v \in S}
Present(o) == o # <<>>

\* str(ObjectId): the wire and stored form of an id.
OidStr(oid) == ToString(oid)
\* ObjectId.is_valid(v) and ObjectId(v) of PyObjectId.validate.
IsValidOid(s) == \E n \in OidUniverse : OidStr(n) = s
ParseOid(s) == CHOOSE n \in OidUniverse : OidStr(n) = s

\* EmailStr validation.
IsEmail(e) == e \in Emails

\* ValidateStudent with the bound on gpa exclusive (lt=4.0 for le=4.0).
ValidateStudentExclusive(b) ==
    /\ Present(b._id) => IsValidOid(b._id[1])
    /\ Present(b.name)
    /\ Present(b.email) /\ IsEmail(b.email[1])
    /\ Present(b.course)
    /\ Present(b.gpa) /\ b.gpa[1] < GpaMax

\* StudentModel validation of a mapping whose values are optional.
ValidateStudent(b) ==
    /\ Present(b._id) => IsValidOid(b._id[1])
    /\ Present(b.name)
    /\ Present(b.email) /\ IsEmail(b.email[1])
    /\ Present(b.course)
    /\ Present(b.gpa) /\ b.gpa[1] <= GpaMax

\* UpdateStudentModel validation: every field Optional, gpa unconstrained.
ValidatePatch(p) == Present(p.email) => IsEmail(p.email[1])

\* jsonable_encoder(StudentModel(**b)): the id is the supplied "_id" when the
\* body has one, else default_factory's fresh ObjectId; it is encoded as str.
EncodeStudent(b, fresh) ==
    [_id |-> OidStr(IF Present(b._id) THEN ParseOid(b._id[1]) ELSE fresh),
     name |-> b.name[1], email |-> b.email[1],
     course |-> b.course[1], gpa |-> b.gpa[1]]

\* {k: v for k, v in student.dict().items() if v is not None}
FilterPatch(p) == [k \in {f \in Fields : Present(p[f])} |-> p[k][1]]

\* A stored document seen as a mapping with every value present.
AsBody(d) == [k \in DOMAIN d |-> <<d[k]>>]

\* ------------------------------------------------------ store primitives
StoredIds(coll) == {d._id : d \in coll}

\* find_one({"_id": id}): <<>> is None.
FindOne(coll, id) ==
    IF \E d \in coll : d._id = id
    THEN <<CHOOSE d \in coll : d._id = id>>
    ELSE <<>>

\* insert_one(doc): DuplicateKeyError when the _id is taken.
InsertOne(coll, doc) ==
    IF doc._id \in StoredIds(coll)
    THEN [ok |-> FALSE, coll |-> coll, inserted_id |-> doc._id]
    ELSE [ok |-> TRUE, coll |-> coll \cup {doc}, inserted_id |-> doc._id]

\* $set of the assignments on one document.
ApplySet(d, set) == [k \in DOMAIN d |-> IF k \in DOMAIN set THEN set[k] ELSE d[k]]

\* UpdateOne with upsert=True: a document is inserted when none matches.
UpdateOneUpsert(coll, id, set) ==
    LET hit == FindOne(coll, id) IN
    IF hit = <<>>
    THEN [coll |-> coll \cup {[k \in {"_id"} \cup DOMAIN set |->
                                  IF k = "_id" THEN id ELSE set[k]]},
          matched_count |-> 0, modified_count |-> 0]
    ELSE LET new == ApplySet(hit[1], set) IN
         [coll |-> (coll \ {hit[1]}) \cup {new},
          matched_count |-> 1,
          modified_count |-> IF new = hit[1] THEN 0 ELSE 1]

\* update_one({"_id": id}, {"$set": set}), no upsert.
UpdateOne(coll, id, set) ==
    LET hit == FindOne(coll, id) IN
    IF hit = <<>>
    THEN [coll |-> coll, matched_count |-> 0, modified_count |-> 0]
    ELSE LET new == ApplySet(hit[1], set) IN
         [coll |-> (coll \ {hit[1]}) \cup {new},
          matched_count |-> 1,
          modified_count |-> IF new = hit[1] THEN 0 ELSE 1]

\* delete_one({"_id": id})
DeleteOne(coll, id) ==
    LET hit == FindOne(coll, id) IN
    IF hit = <<>>
    THEN [coll |-> coll, deleted_count |-> 0]
    ELSE [coll |-> coll \ {hit[1]}, deleted_count |-> 1]

\* find().to_list(length): at most length documents, each once, in the
\* store's iteration order, which the service does not control.
IsListing(seq, coll, length) ==
    /\ Len(seq) = (IF Cardinality(coll) <= length THEN Cardinality(coll) ELSE length)
    /\ \A i \in 1..Len(seq) : seq[i] \in coll
    /\ \A i, j \in 1..Len(seq) : i # j => seq[i] # seq[j]
Listings(coll, length) ==
    {seq \in UNION {[1..k -> coll] : k \in 0..length} : IsListing(seq, coll, length)}

\* f"Student {id} not found"
NotFoundDetail(id) == "Student " \o id \o " not found"

\* ------------------------------------------------------------------ state
VARIABLES
    store,      \* db["students"]: the set of stored documents
    inflight,   \* the requests suspended at an await, with their locals
    nextOid,    \* the next ObjectId default_factory generates
    nreq,       \* requests received so far
    last,       \* the request that responded last, with its response
    deleted     \* ids removed by a delete and not stored again since

vars == <<store, inflight, nextOid, nreq, last, deleted>>

\* The documents the collection may hold at start.
PreDocs ==
    {[_id |-> OidStr(n), name |-> "Ann", email |-> "ann@x.org",
      course |-> "math", gpa |-> 35] : n \in PreOids}

NoRequest ==
    [n |-> 0, op |-> "none", id |-> "", status |-> 0,
     detail |-> "", body |-> <<>>, trips |-> 0, modified |-> FALSE]

Init ==
    /\ store \in SUBSET PreDocs
    /\ inflight = {}
    /\ nextOid = 1
    /\ nreq = 0
    /\ last = NoRequest
    /\ deleted = {}

\* The ids a client can name: those of the documents that may have existed at
\* start, those generated so far, and a string that is no ObjectId.
ClientIds == {OidStr(n) : n \in PreOids \cup (1..(nextOid - 1))} \cup {"zz"}

\* The JSON bodies of POST / and of PUT /{id}.
CreateBodies ==
    [_id : Opt(ClientIds), name : Opt(Names), email : Opt(Emails \cup BadEmails),
     course : Opt(Courses), gpa : Opt(Gpas)]

Patches ==
    [name : Opt(Names), email : Opt(Emails \cup BadEmails),
     course : Opt(Courses), gpa : Opt(Gpas)]

\* A request as it enters its handler.
NewRequest(op, id) ==
    [n |-> nreq + 1, op |-> op, pc |-> "start", id |-> id,
     trips |-> 0, modified |-> FALSE]

\* The response of request r.
Response(r, status, detail, body) ==
    [n |-> r.n, op |-> r.op, id |-> r.id, status |-> status,
     detail |-> detail, body |-> body, trips |-> r.trips, modified |-> r.modified]

\* One more store round trip awaited by r.
Trip(r) == [r EXCEPT !.trips = @ + 1]

\* response_model=StudentModel: the returned document is validated against
\* StudentModel before it is sent; a failure is a server error.
StudentResponse(r, doc) ==
    IF ValidateStudent(AsBody(doc))
    THEN Response(r, 200, "", <<doc>>)
    ELSE Response(r, 500, "", <<>>)

\* response_model=List[StudentModel]
ListResponse(r, students) ==
    IF \A i \in 1..Len(students) : ValidateStudent(AsBody(students[i]))
    THEN Response(r, 200, "", students)
    ELSE Response(r, 500, "", <<>>)

\* raise HTTPException(status_code=404, detail=f"Student {id} not found")
NotFound(r) == Response(r, 404, NotFoundDetail(r.id), <<>>)

\* ---------------------------------------------------------------- actions
\* POST / with body b: validation, then insert_one (the first await).
CreateStudent(b) ==
    LET r == NewRequest("create", "") IN
    /\ nreq < MaxRequests
    /\ nreq' = nreq + 1
    /\ IF ~ValidateStudent(b)
       THEN /\ last' = Response(r, 422, "", <<>>)
            /\ UNCHANGED <<store, inflight, nextOid, deleted>>
       ELSE LET student == EncodeStudent(b, nextOid)
                new_student == InsertOne(store, student)
            IN  /\ nextOid' = IF Present(b._id) THEN nextOid ELSE nextOid + 1
                /\ store' = new_student.coll
                /\ IF new_student.ok
                   THEN /\ inflight' = inflight \cup
                               {[Trip(r) EXCEPT !.pc = "find",
                                                !.id = new_student.inserted_id]}
                        /\ deleted' = deleted \ {new_student.inserted_id}
                        /\ UNCHANGED last
                   ELSE /\ last' = Response(Trip(r), 500, "", <<>>)
                        /\ UNCHANGED <<inflight, deleted>>

\* CreateFind with the re-fetch keyed by an ObjectId where the stored _id is
\* its str: nothing is found.
CreateFindByObjectId(r) ==
    /\ r \in inflight
    /\ r.op = "create" /\ r.pc = "find"
    /\ last' = Response(Trip(r), 201, "", FindOne(store, "ObjectId(" \o r.id \o ")"))
    /\ inflight' = inflight \ {r}
    /\ UNCHANGED <<store, nextOid, nreq, deleted>>

\* POST /: find_one of the inserted id, then the 201 response with what it found.
CreateFind(r) ==
    /\ r \in inflight
    /\ r.op = "create" /\ r.pc = "find"
    /\ last' = Response(Trip(r), 201, "", FindOne(store, r.id))
    /\ inflight' = inflight \ {r}
    /\ UNCHANGED <<store, nextOid, nreq, deleted>>

\* GET /
ListStudents ==
    /\ nreq < MaxRequests
    /\ \E students \in Listings(store, ListCap) :
        last' = ListResponse(Trip(NewRequest("list", "")), students)
    /\ nreq' = nreq + 1
    /\ UNCHANGED <<store, inflight, nextOid, deleted>>

\* GET /{id}
ShowStudent(id) ==
    LET r == Trip(NewRequest("show", id))
        student == FindOne(store, id)
    IN  /\ nreq < MaxRequests
        /\ last' = IF student # <<>> THEN StudentResponse(r, student[1])
                   ELSE NotFound(r)
        /\ nreq' = nreq + 1
        /\ UNCHANGED <<store, inflight, nextOid, deleted>>

\* UpdateStudent without the len(student) >= 1 test: update_one is always
\* awaited.
UpdateStudentAlwaysUpdates(id, p) ==
    LET r == NewRequest("update", id)
        student == FilterPatch(p)
    IN  /\ nreq < MaxRequests
        /\ nreq' = nreq + 1
        /\ UNCHANGED <<nextOid, deleted>>
        /\ IF ~ValidatePatch(p)
           THEN /\ last' = Response(r, 422, "", <<>>)
                /\ UNCHANGED <<store, inflight>>
           ELSE LET update_result == UpdateOne(store, id, student) IN
                /\ store' = update_result.coll
                /\ inflight' = inflight \cup
                     {[Trip(r) EXCEPT
                         !.pc = IF update_result.modified_count = 1
                                THEN "find1" ELSE "find2",
                         !.modified = (update_result.modified_count = 1)]}
                /\ UNCHANGED last

\* PUT /{id} with body p: validation and the filter; then update_one when an
\* assignment is left, else the find_one of the fall-through path.
UpdateStudent(id, p) ==
    LET r == NewRequest("update", id)
        student == FilterPatch(p)
    IN  /\ nreq < MaxRequests
        /\ nreq' = nreq + 1
        /\ UNCHANGED <<nextOid, deleted>>
        /\ IF ~ValidatePatch(p)
           THEN /\ last' = Response(r, 422, "", <<>>)
                /\ UNCHANGED <<store, inflight>>
           ELSE IF Cardinality(DOMAIN student) >= 1
           THEN LET update_result == UpdateOne(store, id, student) IN
                /\ store' = update_result.coll
                /\ inflight' = inflight \cup
                     {[Trip(r) EXCEPT
                         !.pc = IF update_result.modified_count = 1
                                THEN "find1" ELSE "find2",
                         !.modified = (update_result.modified_count = 1)]}
                /\ UNCHANGED last
           ELSE LET existing_student == FindOne(store, id) IN
                /\ last' = IF existing_student # <<>>
                           THEN StudentResponse(Trip(r), existing_student[1])
                           ELSE NotFound(Trip(r))
                /\ UNCHANGED <<store, inflight>>

\* PUT /{id}: the re-fetch after modified_count == 1.
UpdateFind1(r) ==
    /\ r \in inflight
    /\ r.op = "update" /\ r.pc = "find1"
    /\ LET updated_student == FindOne(store, r.id) IN
       IF updated_student # <<>>
       THEN /\ last' = StudentResponse(Trip(r), updated_student[1])
            /\ inflight' = inflight \ {r}
       ELSE /\ inflight' = (inflight \ {r}) \cup {[Trip(r) EXCEPT !.pc = "find2"]}
            /\ UNCHANGED last
    /\ UNCHANGED <<store, nextOid, nreq, deleted>>

\* PUT /{id}: the find_one of the fall-through path.
UpdateFind2(r) ==
    /\ r \in inflight
    /\ r.op = "update" /\ r.pc = "find2"
    /\ LET existing_student == FindOne(store, r.id) IN
       last' = IF existing_student # <<>>
               THEN StudentResponse(Trip(r), existing_student[1])
               ELSE NotFound(Trip(r))
    /\ inflight' = inflight \ {r}
    /\ UNCHANGED <<store, nextOid, nreq, deleted>>

\* DeleteStudent without the deleted_count test: always 204.
DeleteStudentAlways204(id) ==
    LET r == Trip(NewRequest("delete", id))
        delete_result == DeleteOne(store, id)
    IN  /\ nreq < MaxRequests
        /\ store' = delete_result.coll
        /\ last' = Response(r, 204, "", <<>>)
        /\ deleted' = deleted \cup {id}
        /\ nreq' = nreq + 1
        /\ UNCHANGED <<inflight, nextOid>>

\* DELETE /{id}
DeleteStudent(id) ==
    LET r == Trip(NewRequest("delete", id))
        delete_result == DeleteOne(store, id)
    IN  /\ nreq < MaxRequests
        /\ store' = delete_result.coll
        /\ IF delete_result.deleted_count = 1
           THEN /\ last' = Response(r, 204, "", <<>>)
                /\ deleted' = deleted \cup {id}
           ELSE /\ last' = NotFound(r)
                /\ UNCHANGED deleted
        /\ nreq' = nreq + 1
        /\ UNCHANGED <<inflight, nextOid>>

\* A request enters its handler.
Receive ==
    \/ \E b \in CreateBodies : CreateStudent(b)
    \/ ListStudents
    \/ \E id \in ClientIds : ShowStudent(id)
    \/ \E id \in ClientIds, p \in Patches : UpdateStudent(id, p)
    \/ \E id \in ClientIds : DeleteStudent(id)

\* A suspended request resumes.
Resume ==
    \/ \E r \in inflight : CreateFind(r)
    \/ \E r \in inflight : UpdateFind1(r)
    \/ \E r \in inflight : UpdateFind2(r)

Next == Receive \/ Resume

\* Requests handled concurrently.
Spec == Init /\ [][Next]_vars

\* Requests handled one at a time: a request enters its handler only when no
\* other request is suspended.
SeqNext == (inflight = {} /\ Receive) \/ Resume

SeqSpec == Init /\ [][SeqNext]_vars

\* ------------------------------------------------------- step vocabulary
\* This step receives a request; StartedOp is its operation.
Received == nreq' = nreq + 1
StartedOp ==
    IF last'.n = nreq + 1 THEN last'.op
    ELSE (CHOOSE r \in inflight' : r.n = nreq + 1).op
StartedId ==
    IF last'.n = nreq + 1 THEN last'.id
    ELSE (CHOOSE r \in inflight' : r.n = nreq + 1).id
\* The received request is answered in the same step.
AnsweredAtOnce == Received /\ last'.n = nreq + 1
\* This step sends the response of request number n.
Responds(n) == last'.n = n /\ last.n # n

\* A Student input without id that satisfies the schema.
ValidInput(b) ==
    /\ b._id = <<>>
    /\ Present(b.name) /\ Present(b.course)
    /\ Present(b.email) /\ b.email[1] \in Emails
    /\ Present(b.gpa) /\ b.gpa[1] <= GpaMax

\* An input that misses a required field or whose gpa exceeds 4.0.
ViolatesSchema(b) ==
    \/ \E f \in Fields : ~Present(b[f])
    \/ Present(b.gpa) /\ b.gpa[1] > GpaMax

SameFields(d, b) == \A f \in Fields : d[f] = b[f][1]

\* ------------------------------------------------------------------- C1
\* C1: requests handled one at a time.  A create of a valid input without
\* id stores a document with the input's four fields under a non-empty id and
\* goes on to its re-fetch; its response is 201 with exactly that stored
\* document; and a getById of the returned id that is the very next request
\* returns 200 with a Student identical to the one create returned.
C1_Step ==
    /\ (Received /\ StartedOp = "create") =>
        \A b \in CreateBodies : (ValidInput(b) /\ CreateStudent(b)) =>
            \E r \in inflight' \ inflight, d \in store' \ store :
                /\ r.op = "create" /\ r.id = d._id /\ d._id # ""
                /\ SameFields(d, b)
    /\ \A r \in inflight : (r.op = "create" /\ Responds(r.n)) =>
            /\ last'.status = 201
            /\ Len(last'.body) = 1
            /\ last'.body[1] \in store /\ last'.body[1]._id = r.id
            /\ store' = store
    /\ (/\ last.op = "create" /\ last.status = 201 /\ Len(last.body) = 1
        /\ Received /\ StartedOp = "show" /\ last'.id = last.body[1]._id) =>
            last'.status = 200 /\ last'.body = last.body
\* C1: every step of a behaviour satisfies C1_Step (create, then getById, round trip).
C1_CreateRoundTrip == [][C1_Step]_vars

\* A getById that follows a create at once and returns the created Student.
C1_Witness ==
    /\ last.op = "show" /\ last.status = 200 /\ last.n = 2
    /\ last.id = OidStr(1) /\ nextOid = 2

\* ------------------------------------------------------------------- C2
\* The valid inputs without id whose gpa is 4.0, and the same with gpa 4.1.
BodiesWithGpa(g) ==
    [_id : {<<>>}, name : {<<v>> : v \in Names}, email : {<<v>> : v \in Emails},
     course : {<<v>> : v \in Courses}, gpa : {<<g>>}]

AtGpaMax == BodiesWithGpa(GpaMax)
AboveGpaMax == BodiesWithGpa(GpaMax + 1)

\* C2: a create whose input misses a required field or has gpa > 4.0 is
\* answered 422 and leaves the stored documents as they were; an otherwise
\* valid input with gpa = 4.0 is accepted (its document is stored) and one
\* with gpa = 4.1 is rejected.
C2_Step ==
    (Received /\ StartedOp = "create") =>
        IF AnsweredAtOnce /\ last'.status = 422 /\ store' = store
        THEN \A b \in AtGpaMax : ~CreateStudent(b)
        ELSE /\ \A b \in CreateBodies : ViolatesSchema(b) => ~CreateStudent(b)
             /\ \A b \in AboveGpaMax : ~CreateStudent(b)
             /\ \A b \in AtGpaMax : CreateStudent(b) =>
                    \E d \in store' \ store : SameFields(d, b)
\* C2: every step satisfies C2_Step (an invalid create is rejected, nothing written).
C2_InvalidCreateRejected == [][C2_Step]_vars

\* A create was rejected by validation.
C2_Witness == last.op = "create" /\ last.status = 422 /\ last.trips = 0

\* ------------------------------------------------------------------- C3
\* The document d after the present fields of patch p are assigned.
Patched(d, p) ==
    [k \in DOMAIN d |-> IF k \in Fields /\ Present(p[k]) THEN p[k][1] ELSE d[k]]
AllAbsent(p) == \A f \in Fields : ~Present(p[f])
EmptyPatch == [name |-> <<>>, email |-> <<>>, course |-> <<>>, gpa |-> <<>>]
NotFoundText(id) == "Student " \o id \o " not found"

\* C3: requests handled one at a time.  An update of a stored student sets
\* in that document exactly the fields present in the patch, leaves its other
\* fields, its id and every other document unchanged, and its response is 200
\* with the stored (updated) record.
C3_Step ==
    /\ (Received /\ StartedOp = "update" /\ StartedId \in StoredIds(store)) =>
        \A p \in Patches : (ValidatePatch(p) /\ UpdateStudent(StartedId, p)) =>
            store' = {IF d._id = StartedId THEN Patched(d, p) ELSE d : d \in store}
    /\ (AnsweredAtOnce /\ last'.op = "update" /\ last'.status # 422
            /\ last'.id \in StoredIds(store)) =>
        last'.status = 200 /\ last'.body = FindOne(store, last'.id)
    /\ \A r \in inflight :
        (r.op = "update" /\ r.id \in StoredIds(store) /\ Responds(r.n)) =>
            /\ last'.status = 200 /\ last'.body = FindOne(store, r.id)
            /\ store' = store
\* C3: every step satisfies C3_Step (update sets only the patch fields, returns the record).
C3_UpdateSetsOnlyPatchFields == [][C3_Step]_vars

\* ------------------------------------------------------------------- C4
\* C4: requests handled one at a time.  An update of a stored student whose
\* patch is empty, or assigns only the values already stored, is answered 200
\* with the stored record and leaves the store unchanged.
C4_Step ==
    /\ (Received /\ StartedOp = "update" /\ StartedId \in StoredIds(store)) =>
        \A p \in Patches :
            (/\ ValidatePatch(p)
             /\ Patched(FindOne(store, StartedId)[1], p) = FindOne(store, StartedId)[1]
             /\ UpdateStudent(StartedId, p)) =>
                /\ store' = store
                /\ AnsweredAtOnce =>
                    last'.status = 200 /\ last'.body = FindOne(store, StartedId)
    /\ \A r \in inflight :
        (r.op = "update" /\ ~r.modified /\ r.id \in StoredIds(store) /\ Responds(r.n)) =>
            /\ last'.status = 200 /\ last'.body = FindOne(store, r.id)
            /\ store' = store
\* C4: every step satisfies C4_Step (a no-op update returns the unchanged record).
C4_NoOpUpdateReturnsRecord == [][C4_Step]_vars

\* ------------------------------------------------------------------- C5
\* C5: requests handled one at a time.  A getById, an update with any
\* well-formed patch, or a delete of an id under which nothing is stored is
\* answered 404 with the detail "Student {id} not found", and the store is
\* left as it was: no document is created.
C5_Step ==
    /\ (AnsweredAtOnce /\ last'.op \in {"show", "update", "delete"}
            /\ last'.status # 422 /\ last'.id \notin StoredIds(store)) =>
        /\ last'.status = 404 /\ last'.detail = NotFoundText(last'.id)
        /\ store' = store
    /\ (Received /\ ~AnsweredAtOnce /\ StartedOp = "update"
            /\ StartedId \notin StoredIds(store)) =>
        store' = store
    /\ \A r \in inflight :
        (r.op = "update" /\ r.id \notin StoredIds(store)) =>
            /\ Responds(r.n)
            /\ last'.status = 404 /\ last'.detail = NotFoundText(r.id)
            /\ store' = store
\* C5: every step satisfies C5_Step (a missing id is answered 404, store untouched).
C5_MissingIdNotFound == [][C5_Step]_vars

\* An update with a non-empty patch of an id that is not stored: 404 after
\* update_one and find_one.
C5_Witness ==
    /\ last.op = "update" /\ last.status = 404 /\ last.trips = 2
    /\ last.id \notin StoredIds(store)

\* ------------------------------------------------------------------- C6
\* C6: a delete answered 204 removes exactly the one document stored under
\* its id and no other; an id removed by a delete is stored again only by a
\* create that inserts it; and while it is not, every getById, update and
\* delete of that id is answered 404.
C6_Step ==
    /\ (AnsweredAtOnce /\ last'.op = "delete" /\ last'.status = 204) =>
        \E d \in store :
            /\ d._id = last'.id
            /\ store' = store \ {d}
            /\ last'.id \notin StoredIds(store')
            /\ Cardinality(store') = Cardinality(store) - 1
    /\ \A id \in deleted :
        /\ id \notin StoredIds(store)
        /\ id \in StoredIds(store') => (Received /\ StartedOp = "create")
    /\ (last'.n # last.n /\ last'.op \in {"show", "update", "delete"}
            /\ last'.status # 422 /\ last'.id \in deleted) =>
        last'.status = 404
\* C6: every step satisfies C6_Step (a deleted id stays not found until created again).
C6_DeletedStaysNotFound == [][C6_Step]_vars

\* A getById of an id that a delete removed is answered 404.
C6_Witness ==
    /\ last.op = "show" /\ last.status = 404 /\ last.id \in deleted

\* ------------------------------------------------------------------- C7
\* C7: list is answered 200 and leaves the store as it was; with at most
\* ListCap stored documents it returns exactly the stored students, each once,
\* and with more it returns exactly ListCap of them.
C7_Step ==
    (Received /\ StartedOp = "list") =>
        /\ last'.status = 200
        /\ store' = store
        /\ \A i \in 1..Len(last'.body) : last'.body[i] \in store
        /\ \A i, j \in 1..Len(last'.body) : i # j => last'.body[i] # last'.body[j]
        /\ Cardinality(store) <= ListCap => Len(last'.body) = Cardinality(store)
        /\ Cardinality(store) > ListCap => Len(last'.body) = ListCap
\* C7: every step satisfies C7_Step (list answers with the stored students up to the cap).
C7_ListReturnsStored == [][C7_Step]_vars

\* ------------------------------------------------------------------- C8
\* C8 as claimed: every request that its handler answers (not one rejected by
\* validation, not one ended by a server error) has made the number of store
\* round trips fixed by its operation: create and update two, list, getById
\* and delete one.
C8_FixedRoundTrips ==
    (last.op # "none" /\ last.status \notin {422, 500}) =>
        last.trips = (IF last.op \in {"create", "update"} THEN 2 ELSE 1)

\* C8 as amended: a request rejected by validation makes no round trip; list,
\* getById and delete make one; create makes two, or one when insert_one
\* fails; update makes one when its patch has no non-null field, else two, or
\* three when its update_one modified a document and the re-fetch found none.
C8_Step ==
    /\ last'.n # last.n =>
        /\ last'.status = 422 <=> last'.trips = 0
        /\ last'.op \in {"list", "show", "delete"} => last'.trips = 1
        /\ (last'.op = "create" /\ last'.status # 422) =>
            \/ last'.status = 201 /\ last'.trips = 2
            \/ last'.status = 500 /\ last'.trips = 1 /\ AnsweredAtOnce
        /\ (last'.op = "update" /\ last'.status # 422) =>
            IF AnsweredAtOnce THEN last'.trips = 1
            ELSE \/ last'.trips = 2
                 \/ last'.trips = 3 /\ last'.modified
    /\ (Received /\ StartedOp = "update") =>
        IF AnsweredAtOnce
        THEN last'.status # 422 =>
                \A p \in Patches : (ValidatePatch(p) /\ ~AllAbsent(p)) =>
                    ~UpdateStudent(StartedId, p)
        ELSE ~UpdateStudent(StartedId, EmptyPatch)
\* C8 as amended: every step satisfies C8_Step (round trips by path).
C8_RoundTripsByPath == [][C8_Step]_vars

\* An update with an empty patch answered after its single find_one.
C8_Witness == last.op = "update" /\ last.status = 200 /\ last.trips = 1

\* ------------------------------------------------------------------- C9
\* C9: in every interleaving, an update whose update_one modified a document
\* is never answered 404.
C9_ModifiedNeverNotFound ==
    (last.op = "update" /\ last.modified) => last.status # 404

\* ------------------------------------------------------------------ C10
\* C10: in every interleaving no two stored documents share an id, and the
\* set of stored ids changes only by a create, which adds one id that was not
\* stored and that is not the id its request supplied, or by a delete
\* answered 204, which removes the id it addressed.
C10_Step ==
    /\ \A d1, d2 \in store' : d1._id = d2._id => d1 = d2
    /\ StoredIds(store') # StoredIds(store) =>
        \/ /\ Received /\ StartedOp = "create"
           /\ \E id \in StoredIds(store') \ StoredIds(store) :
                /\ StoredIds(store') = StoredIds(store) \cup {id}
                /\ \A b \in CreateBodies : CreateStudent(b) => b._id # <<id>>
        \/ /\ AnsweredAtOnce /\ last'.op = "delete" /\ last'.status = 204
           /\ last'.id \in StoredIds(store)
           /\ StoredIds(store') = StoredIds(store) \ {last'.id}
\* C10: every step satisfies C10_Step (ids unique, added by create only, never client-chosen).
C10_IdsAssignedByService == [][C10_Step]_vars
====
